---- MODULE Spec2Model ----
(***************************************************************************)
(* The in-memory quiz server of src/server.js: the quiz registry, the      *)
(* participants of each quiz, the IP allow/deny lists, and the POST        *)
(* handlers that change them.  A handler runs from one `await` to the      *)
(* next without interruption; the only `await` is `await parseBody(req)`,  *)
(* so every POST handler is two steps: the part before the body has        *)
(* arrived (Recv...) and the part after it (the handler's name).           *)
(***************************************************************************)
EXTENDS Integers, Sequences, FiniteSets, Bags, TLC

VARIABLES
  quizzes,    \* the object `quizzes`: code -> quiz
  heap,       \* the participant objects ever created, by identity
  inflight,   \* requests suspended at `await parseBody(req)`
  resp,       \* what the handler that ran last did with its response
  alive,      \* FALSE once an unhandled rejection has ended the process
  nreq        \* requests received so far

vars == <<quizzes, heap, inflight, resp, alive, nreq>>

----------------------------------------------------------------------------
(* Bounds of the model. *)

\* requests the server receives in one run
MaxReq == 4
\* requests suspended at their `await` at the same time
MaxInflight == 2

----------------------------------------------------------------------------
(* Strings are sequences of one-character strings. *)

\* the values generateCode can return: in the code 6 characters of
\* 'A'..'Z','0'..'9'; here one character of "A" and "1", so that a second
\* draw can repeat the first
Codes == {<<"A">>, <<"1">>}

\* a name that every plain object inherits from Object.prototype
ValueOf == <<"v", "a", "l", "u", "e", "O", "f">>

\* obj[key] is truthy although key was never assigned: `quizzes` and every
\* `participants` are plain objects ({}), read with obj[key]
Inherited(key) == key \in {ValueOf}

IsSpace(ch) == ch = " "

RECURSIVE TrimStart(_)
TrimStart(s) ==
  IF s # <<>> /\ IsSpace(Head(s)) THEN TrimStart(Tail(s)) ELSE s

RECURSIVE TrimEnd(_)
TrimEnd(s) ==
  IF s # <<>> /\ IsSpace(s[Len(s)]) THEN TrimEnd(SubSeq(s, 1, Len(s) - 1)) ELSE s

\* String.prototype.trim
Trim(s) == TrimEnd(TrimStart(s))

UpperChar(ch) ==
  CASE ch = "a" -> "A"
    [] ch = "b" -> "B"
    [] ch = "e" -> "E"
    [] ch = "f" -> "F"
    [] ch = "l" -> "L"
    [] ch = "u" -> "U"
    [] ch = "v" -> "V"
    [] OTHER -> ch

\* String.prototype.toUpperCase
ToUpperCase(s) == [i \in 1..Len(s) |-> UpperChar(s[i])]

----------------------------------------------------------------------------
(* Numbers and arrays of numbers. *)

\* the value `undefined` where the code puts it into an array of numbers
Undefined == -1

\* parseInt of one submitted form value: [nan |-> TRUE] is NaN
ParseInt(tok) ==
  CASE tok = "0" -> [nan |-> FALSE, val |-> 0]
    [] tok = "1" -> [nan |-> FALSE, val |-> 1]
    [] tok = "2" -> [nan |-> FALSE, val |-> 2]
    [] tok = "10" -> [nan |-> FALSE, val |-> 10]
    [] tok = "1x" -> [nan |-> FALSE, val |-> 1]
    [] OTHER -> [nan |-> TRUE, val |-> 0]

\* String(n) for 0 <= n < 100, as the digits
NumToString(n) == IF n < 10 THEN <<n>> ELSE <<n \div 10, n % 10>>

RECURSIVE StrLess(_, _)
StrLess(s, t) ==
  IF t = <<>> THEN FALSE
  ELSE IF s = <<>> THEN TRUE
  ELSE IF Head(s) # Head(t) THEN Head(s) < Head(t)
  ELSE StrLess(Tail(s), Tail(t))

\* the order of Array.prototype.sort without a comparator: undefined last,
\* the rest by their strings
SortBefore(x, y) ==
  IF x = Undefined THEN FALSE
  ELSE IF y = Undefined THEN TRUE
  ELSE StrLess(NumToString(x), NumToString(y))

RECURSIVE Insert(_, _)
Insert(x, s) ==
  IF s = <<>> THEN <<x>>
  ELSE IF SortBefore(x, Head(s)) THEN <<x>> \o s
  ELSE <<Head(s)>> \o Insert(x, Tail(s))

\* [...a].sort()
RECURSIVE Sort(_)
Sort(a) == IF a = <<>> THEN <<>> ELSE Insert(Head(a), Sort(Tail(a)))

arraysEqualUnordered(a, b) ==
  IF Len(a) # Len(b) THEN FALSE
  ELSE LET sa == Sort(a)
           sb == Sort(b)
       IN  \A i \in 1..Len(sa) : sa[i] = sb[i]

----------------------------------------------------------------------------
(* Quizzes as JSON.parse(body.data) delivers them.  A question is what the *)
(* handlers read of it: whether it is an object at all, whether it has     *)
(* `question`, `options` (and how many) and `correct` (an array, a single  *)
(* number, or absent).                                                      *)

Question(n, kind, c) ==
  [obj |-> TRUE, text |-> TRUE, hasOptions |-> TRUE, nopts |-> n,
   ckind |-> kind, correct |-> c]

QSingle == Question(1, "array", <<0>>)
QMulti == Question(2, "array", <<1, 0>>)
QScalar == Question(2, "scalar", <<0>>)
QOutOfRange == Question(1, "array", <<1>>)
QEmptyCorrect == Question(2, "array", <<>>)
QNoCorrect == Question(2, "undefined", <<>>)
QNoOptions ==
  [obj |-> TRUE, text |-> TRUE, hasOptions |-> FALSE, nopts |-> 0,
   ckind |-> "array", correct |-> <<0>>]
QNull ==
  [obj |-> FALSE, text |-> FALSE, hasOptions |-> FALSE, nopts |-> 0,
   ckind |-> "undefined", correct |-> <<>>]

\* body.data of POST /create: text that does not parse, JSON that is no
\* array, or an array of questions
DataInputs ==
  {[json |-> "invalid", v |-> <<>>], [json |-> "object", v |-> <<>>]}
  \cup {[json |-> "array", v |-> qs] :
          qs \in {<<>>, <<QScalar>>, <<QMulti, QSingle>>, <<QEmptyCorrect>>,
                  <<QNoCorrect, QNoOptions, QOutOfRange, QNull>>}}

\* body.title of POST /create; an absent field is the empty title, which is
\* refused as the blank one is
TitleInputs == {<<" ">>, <<" ", "M", " ">>}

\* body.name of POST /join
NameInputs == {<<" ">>, <<" ", "a", " ">>}

\* body.code of POST /join; the handler turns it to upper case, and no
\* inherited name is in upper case
JoinCodeInputs == {<<"a">>, <<" ", "1">>}

\* the code and the participant id in the path of /take, /result,
\* /scoreboard, /whitelist and /blacklist
PathInputs == Codes \cup {ValueOf}

\* the x-forwarded-for header of POST /join; <<>> is the absent one
HeaderInputs == {<<>>, <<"x">>}

\* req.socket.remoteAddress of POST /join
RemoteInputs == {<<"y">>}

\* body.ip of POST /whitelist and POST /blacklist
IpInputs == {<<" ">>, <<"x">>, <<"y", " ">>}

\* the values of one `answer` form field
AnswerTokens == {"0", "1"}

\* body.answer as querystring.parse delivers it: absent, one string, or an
\* array when the field is repeated
AnswerInputs ==
  {[kind |-> "undefined", v |-> <<>>]}
  \cup {[kind |-> "string", v |-> <<t>>] : t \in AnswerTokens}
  \cup {[kind |-> "array", v |-> a] :
          a \in {<<"0", "1">>, <<"0", "0">>, <<"1", "x">>}}

----------------------------------------------------------------------------
(* What the handlers compute. *)

RECURSIVE ParseAll(_)
\* body.answer.map(x => parseInt(x)).filter(n => !isNaN(n))
ParseAll(toks) ==
  IF toks = <<>> THEN <<>>
  ELSE LET n == ParseInt(Head(toks))
       IN  (IF n.nan THEN <<>> ELSE <<n.val>>) \o ParseAll(Tail(toks))

\* `selected` of POST /take
Selected(answer) ==
  IF answer.kind = "undefined" THEN <<>>
  ELSE IF answer.kind = "array" THEN ParseAll(answer.v)
  ELSE LET val == ParseInt(answer.v[1])
       IN  IF val.nan THEN <<>> ELSE <<val.val>>

\* Array.isArray(q.correct) ? q.correct : [q.correct]
CorrectIndices(q) ==
  IF q.ckind = "array" THEN q.correct
  ELSE IF q.ckind = "scalar" THEN <<q.correct[1]>>
  ELSE <<Undefined>>

\* the request's address as POST /join takes it
RequesterIp(header, remote) ==
  IF header # <<>> THEN header ELSE IF remote # <<>> THEN remote ELSE <<>>

\* the mutant of JoinDecision: the whitelist is consulted before the
\* blacklist and the blacklist only when the whitelist is empty
JoinDecisionWhitelistFirst(known, quiz, name, ip) ==
  IF ~known THEN "Quiz Not Found"
  ELSE IF name = <<>> THEN "Invalid Name"
  ELSE IF quiz.whitelist # {} /\ ip \notin quiz.whitelist THEN "Access Restricted"
  ELSE IF quiz.whitelist = {} /\ ip \in quiz.blacklist THEN "Access Denied"
  ELSE "Admitted"

\* the mutant of JoinDecision: an empty whitelist admits nobody
JoinDecisionEmptyRestricts(known, quiz, name, ip) ==
  IF ~known THEN "Quiz Not Found"
  ELSE IF name = <<>> THEN "Invalid Name"
  ELSE IF ip \in quiz.blacklist THEN "Access Denied"
  ELSE IF ip \notin quiz.whitelist THEN "Access Restricted"
  ELSE "Admitted"

\* the mutant of JoinDecision: the name is checked after the lists
JoinDecisionNameLast(known, quiz, name, ip) ==
  IF ~known THEN "Quiz Not Found"
  ELSE IF ip \in quiz.blacklist THEN "Access Denied"
  ELSE IF quiz.whitelist # {} /\ ip \notin quiz.whitelist THEN "Access Restricted"
  ELSE IF name = <<>> THEN "Invalid Name"
  ELSE "Admitted"

\* the checks of POST /join in their order; `quiz` is read only when known
JoinDecision(known, quiz, name, ip) ==
  IF ~known THEN "Quiz Not Found"
  ELSE IF name = <<>> THEN "Invalid Name"
  ELSE IF ip \in quiz.blacklist THEN "Access Denied"
  ELSE IF quiz.whitelist # {} /\ ip \notin quiz.whitelist THEN "Access Restricted"
  ELSE "Admitted"

\* the checks of POST /create in their order
CreateDecision(title, data) ==
  IF data.json = "invalid" THEN "Invalid quiz data"
  ELSE IF Trim(title) = <<>> \/ data.json # "array" \/ Len(data.v) = 0
       THEN "No title or question"
  ELSE "Quiz Created"

----------------------------------------------------------------------------
(* The state. *)

NoQuiz ==
  [title |-> <<>>, questions |-> <<>>, participants |-> <<>>, order |-> <<>>,
   whitelist |-> {}, blacklist |-> {}]

\* quizzes[code] = { title, questions, participants: {}, whitelist, blacklist }
\* `participants` maps an id to the participant object it names; `order` is
\* the order in which its keys were first assigned
NewQuiz(title, questions) ==
  [title |-> title, questions |-> questions, participants |-> <<>>,
   order |-> <<>>, whitelist |-> {}, blacklist |-> {}]

\* quiz.participants[pid] = { name, answers: [], score: 0, ip }
NewParticipant(name, ip) ==
  [name |-> name, answers |-> <<>>, score |-> 0, ip |-> ip]

\* a request suspended at `await parseBody(req)`, with what it read before
Request(op, code, obj) == [op |-> op, code |-> code, obj |-> obj]

\* res.writeHead(status), the page or the redirect that follows, and the
\* numbers the page shows
Page(status, page, body) == [status |-> status, page |-> page, body |-> body]

\* a response that shows no numbers
Response(status, page) == Page(status, page, <<>>)

\* quizzes[code], as a truth value
Known(code) == code \in DOMAIN quizzes

\* quiz.participants[pid], as a truth value
Joined(code, pid) == Known(code) /\ pid \in DOMAIN quizzes[code].participants

\* the participant object that quiz.participants[pid] names
Participant(code, pid) == heap[quizzes[code].participants[pid]]

\* what `participant = quiz.participants[pid]` holds once the lookup has
\* passed: the identity of a participant object, or 0 for the function that
\* an inherited name yields
Found(code, pid) == IF Joined(code, pid) THEN quizzes[code].participants[pid] ELSE 0

Init ==
  /\ quizzes = <<>>
  /\ heap = <<>>
  /\ inflight = EmptyBag
  /\ resp = Response(0, "")
  /\ alive = TRUE
  /\ nreq = 0

\* a request arrives and its handler runs up to `await parseBody(req)`
Suspend(r) ==
  /\ inflight' = inflight (+) SetToBag({r})
  /\ nreq' = nreq + 1

\* the body has arrived and the handler of r goes on
Resume(r) ==
  /\ alive
  /\ BagIn(r, inflight)
  /\ inflight' = inflight (-) SetToBag({r})

\* the server takes another request
Accepts ==
  /\ alive
  /\ nreq < MaxReq

\* an exception leaves the async handler: the promise is rejected and nobody
\* handles it.  Node ends the process (its default since version 15) or only
\* warns; the request gets no response either way
Throws ==
  /\ resp' = Response(0, "unhandledRejection")
  /\ alive' \in BOOLEAN

----------------------------------------------------------------------------
(* POST /create *)

RecvCreate ==
  /\ Accepts
  /\ BagCardinality(inflight) < MaxInflight
  /\ Suspend(Request("create", <<>>, 0))
  /\ UNCHANGED <<quizzes, heap, resp, alive>>

\* the mutant of FreeCode: the loop `while (quizzes[code])` is left out
FreeCodeUnchecked(code) == code \in Codes

\* the exit of `do { code = generateCode(); } while (quizzes[code])`
FreeCode(code) == code \in Codes /\ ~Known(code)

Create(title, data) ==
  /\ Resume(Request("create", <<>>, 0))
  /\ LET page == CreateDecision(title, data)
     IN  IF page # "Quiz Created"
         THEN /\ resp' = Response(400, page)
              /\ UNCHANGED quizzes
         ELSE \E code \in Codes :
                /\ FreeCode(code)
                /\ quizzes' = [c \in DOMAIN quizzes \cup {code} |->
                                 IF c = code THEN NewQuiz(Trim(title), data.v)
                                 ELSE quizzes[c]]
                /\ resp' = Response(200, page)
  /\ UNCHANGED <<heap, alive, nreq>>

----------------------------------------------------------------------------
(* POST /join *)

RecvJoin ==
  /\ Accepts
  /\ BagCardinality(inflight) < MaxInflight
  /\ Suspend(Request("join", <<>>, 0))
  /\ UNCHANGED <<quizzes, heap, resp, alive>>

JoinStatus(page) ==
  CASE page = "Quiz Not Found" -> 404
    [] page = "Invalid Name" -> 400
    [] page = "Access Denied" -> 403
    [] page = "Access Restricted" -> 403
    [] OTHER -> 302

\* quiz.participants[pid] = <the new object obj>
Admit(quiz, pid, obj) ==
  [quiz EXCEPT
     !.participants = [p \in DOMAIN quiz.participants \cup {pid} |->
                         IF p = pid THEN obj ELSE quiz.participants[p]],
     !.order = IF pid \in DOMAIN quiz.participants THEN @ ELSE Append(@, pid)]

Join(rawcode, rawname, header, remote) ==
  /\ Resume(Request("join", <<>>, 0))
  /\ LET code == Trim(ToUpperCase(rawcode))
         name == Trim(rawname)
         ip == RequesterIp(header, remote)
         quiz == IF Known(code) THEN quizzes[code] ELSE NoQuiz
         page == JoinDecision(Known(code), quiz, name, ip)
     IN  IF page # "Admitted"
         THEN /\ resp' = Response(JoinStatus(page), page)
              /\ UNCHANGED <<quizzes, heap>>
         ELSE \E pid \in Codes :
                /\ heap' = Append(heap, NewParticipant(name, ip))
                /\ quizzes' = [quizzes EXCEPT ![code] = Admit(quiz, pid, Len(heap) + 1)]
                /\ resp' = Response(302, page)
  /\ UNCHANGED <<alive, nreq>>

----------------------------------------------------------------------------
(* POST /take/:code/:pid *)

\* the lookup of the quiz and the participant, before the body is read
RecvTake(code, pid) ==
  /\ Accepts
  /\ IF ~Known(code) /\ Inherited(code)
     THEN \* quiz is the inherited function: `quiz.participants[pid]` throws
          /\ Throws
          /\ nreq' = nreq + 1
          /\ UNCHANGED inflight
     ELSE IF ~Known(code) \/ (~Joined(code, pid) /\ ~Inherited(pid))
     THEN /\ resp' = Response(404, "Not Found")
          /\ nreq' = nreq + 1
          /\ UNCHANGED <<inflight, alive>>
     ELSE /\ BagCardinality(inflight) < MaxInflight
          /\ Suspend(Request("take", code, Found(code, pid)))
          /\ UNCHANGED <<resp, alive>>
  /\ UNCHANGED <<quizzes, heap>>

\* the mutant of Recorded: the submission also clears the participant's name
RecordedUnnamed(p, questions, selected) ==
  [p EXCEPT !.answers = Append(@, selected), !.name = <<>>]

\* participant.answers.push(selected)
Recorded(p, questions, selected) == [p EXCEPT !.answers = Append(@, selected)]

\* if (arraysEqualUnordered(selected, correctIndices)) participant.score++
Scored(p, q, selected) ==
  IF arraysEqualUnordered(selected, CorrectIndices(q))
  THEN [p EXCEPT !.score = @ + 1]
  ELSE p

\* the body has arrived: record the answer, score it, show what comes next
TakePost(r, answer) ==
  /\ r.op = "take"
  /\ Resume(r)
  /\ IF r.obj = 0
     THEN \* `participant.answers` is undefined: `.length` throws
          /\ Throws
          /\ UNCHANGED heap
     ELSE
     LET participant == heap[r.obj]
         questions == quizzes[r.code].questions
         qIndex == Len(participant.answers)
         selected == Selected(answer)
         pushed == Recorded(participant, questions, selected)
     IN  IF qIndex >= Len(questions) \/ ~questions[qIndex + 1].obj
         THEN \* q is undefined or null: `q.correct` throws after the push
              /\ heap' = [heap EXCEPT ![r.obj] = pushed]
              /\ Throws
         ELSE LET scored == Scored(pushed, questions[qIndex + 1], selected)
                  currentIndex == Len(scored.answers)
              IN  /\ heap' = [heap EXCEPT ![r.obj] = scored]
                  /\ IF currentIndex >= Len(questions)
                     THEN /\ resp' = Response(302, "Result")
                          /\ UNCHANGED alive
                     ELSE IF ~questions[currentIndex + 1].obj
                             \/ ~questions[currentIndex + 1].hasOptions
                     THEN \* `q.options.forEach` throws on the next question
                          Throws
                     ELSE /\ resp' = Page(200, "Question", <<currentIndex>>)
                          /\ UNCHANGED alive
  /\ UNCHANGED <<quizzes, nreq>>

----------------------------------------------------------------------------
(* POST /whitelist/:code and POST /blacklist/:code *)

RecvAccess(op, code) ==
  /\ Accepts
  /\ IF ~Known(code) /\ ~Inherited(code)
     THEN /\ resp' = Response(404, "Quiz not found")
          /\ nreq' = nreq + 1
          /\ UNCHANGED inflight
     ELSE /\ BagCardinality(inflight) < MaxInflight
          /\ Suspend(Request(op, code, 0))
          /\ UNCHANGED resp
  /\ UNCHANGED <<quizzes, heap, alive>>

\* quiz.whitelist.add(ip); quiz.blacklist.delete(ip)
Whitelisted(quiz, ip) ==
  [quiz EXCEPT !.whitelist = @ \cup {ip}, !.blacklist = @ \ {ip}]

\* the mutant of Blacklisted: the address stays on the whitelist
BlacklistedOnly(quiz, ip) == [quiz EXCEPT !.blacklist = @ \cup {ip}]

\* the mutant of Blacklisted: the participants of the address are removed
BlacklistedEvicts(quiz, ip) ==
  [quiz EXCEPT
     !.blacklist = @ \cup {ip},
     !.whitelist = @ \ {ip},
     !.participants = [pid \in {k \in DOMAIN @ : heap[@[k]].ip # ip} |-> @[pid]],
     !.order = SelectSeq(@, LAMBDA k : heap[quiz.participants[k]].ip # ip)]

\* quiz.blacklist.add(ip); quiz.whitelist.delete(ip)
Blacklisted(quiz, ip) ==
  [quiz EXCEPT !.blacklist = @ \cup {ip}, !.whitelist = @ \ {ip}]

Whitelist(r, rawip) ==
  /\ r.op = "whitelist"
  /\ Resume(r)
  /\ LET ip == Trim(rawip)
     IN  IF ip # <<>> /\ ~Known(r.code)
         THEN \* quiz is the inherited function: `quiz.whitelist.add` throws
              /\ Throws
              /\ UNCHANGED quizzes
         ELSE /\ quizzes' = IF ip # <<>>
                            THEN [quizzes EXCEPT ![r.code] = Whitelisted(@, ip)]
                            ELSE quizzes
              /\ resp' = Response(302, "Scoreboard")
              /\ UNCHANGED alive
  /\ UNCHANGED <<heap, nreq>>

Blacklist(r, rawip) ==
  /\ r.op = "blacklist"
  /\ Resume(r)
  /\ LET ip == Trim(rawip)
     IN  IF ip # <<>> /\ ~Known(r.code)
         THEN \* quiz is the inherited function: `quiz.blacklist.add` throws
              /\ Throws
              /\ UNCHANGED quizzes
         ELSE /\ quizzes' = IF ip # <<>>
                            THEN [quizzes EXCEPT ![r.code] = Blacklisted(@, ip)]
                            ELSE quizzes
              /\ resp' = Response(302, "Scoreboard")
              /\ UNCHANGED alive
  /\ UNCHANGED <<heap, nreq>>

----------------------------------------------------------------------------
(* GET /take/:code/:pid *)

\* no `await`: the handler runs in one step
GetTake(code, pid) ==
  /\ Accepts
  /\ nreq' = nreq + 1
  /\ IF (~Known(code) /\ Inherited(code)) \/ (Known(code) /\ ~Joined(code, pid) /\ Inherited(pid))
     THEN \* `quiz.participants[pid]` or `participant.answers.length` throws
          Throws
     ELSE IF ~Joined(code, pid)
     THEN /\ resp' = Response(404, "Not Found")
          /\ UNCHANGED alive
     ELSE LET questions == quizzes[code].questions
              currentIndex == Len(Participant(code, pid).answers)
          IN  IF currentIndex >= Len(questions)
              THEN /\ resp' = Response(302, "Result")
                   /\ UNCHANGED alive
              ELSE IF ~questions[currentIndex + 1].obj
                      \/ ~questions[currentIndex + 1].hasOptions
              THEN Throws
              ELSE /\ resp' = Page(200, "Question", <<currentIndex>>)
                   /\ UNCHANGED alive
  /\ UNCHANGED <<quizzes, heap, inflight>>

----------------------------------------------------------------------------
(* GET /result/:code/:pid *)

Elements(seq) == {seq[i] : i \in 1..Len(seq)}

\* the mutant of Round: the fraction is cut off
RoundDown(num, den) == num \div den

\* Math.round(num / den) for num >= 0 and den > 0: halves go up
Round(num, den) == (2 * num + den) \div (2 * den)

\* the quotients score / total, in lowest terms and for a total up to 201,
\* for which the double (score / total) * 100 is the double just below
\* k + 1/2 although the exact product is k + 1/2: 23/40 yields
\* 57.49999999999999, 29/200 yields 14.499999999999998, 57/200 yields
\* 28.499999999999996 and 113/200 yields 56.49999999999999; every other
\* quotient of such a total yields a double that rounds as its exact value
HalfLost == {<<23, 40>>, <<29, 200>>, <<57, 200>>, <<113, 200>>}

\* total > 0 ? Math.round((participant.score / total) * 100) : 0
Percent(score, total) ==
  IF total <= 0 THEN 0
  ELSE IF \E f \in HalfLost : score * f[2] = total * f[1]
       THEN Round(score * 100, total) - 1
       ELSE Round(score * 100, total)

\* participant.answers[i] || [], for the i-th question counted from 1
Your(p, i) == IF i <= Len(p.answers) THEN p.answers[i] ELSE <<>>

\* q.options[idx] is an option: otherwise `opt.text` throws
HasOption(q, idx) == q.hasOptions /\ idx \in 0..(q.nopts - 1)

\* the callback of quiz.questions.forEach throws on the i-th question
DetailThrows(q, your) ==
  \/ ~q.obj
  \/ \E idx \in Elements(your) \cup Elements(CorrectIndices(q)) : ~HasOption(q, idx)

\* the mutant of IsCorrect: an unanswered question counts as wrong
IsCorrectIfAnswered(q, your) ==
  your # <<>> /\ arraysEqualUnordered(your, CorrectIndices(q))

\* isCorrect = arraysEqualUnordered(your, correctIndices)
IsCorrect(q, your) == arraysEqualUnordered(your, CorrectIndices(q))

\* what the result page shows: score, total, percent, points, and then for
\* each question 1 for "Correct" and 0 for "Incorrect"
ResultBody(quiz, p) ==
  <<p.score, Len(quiz.questions), Percent(p.score, Len(quiz.questions)), p.score * 100>>
  \o [i \in 1..Len(quiz.questions) |->
        IF IsCorrect(quiz.questions[i], Your(p, i)) THEN 1 ELSE 0]

Result(code, pid) ==
  /\ Accepts
  /\ nreq' = nreq + 1
  /\ IF (~Known(code) /\ Inherited(code)) \/ (Known(code) /\ ~Joined(code, pid) /\ Inherited(pid))
     THEN \* `quiz.participants[pid]` or `participant.answers[i]` throws
          Throws
     ELSE IF ~Joined(code, pid)
     THEN /\ resp' = Response(404, "Not Found")
          /\ UNCHANGED alive
     ELSE LET quiz == quizzes[code]
              p == Participant(code, pid)
          IN  IF \E i \in 1..Len(quiz.questions) : DetailThrows(quiz.questions[i], Your(p, i))
              THEN Throws
              ELSE /\ resp' = Page(200, "Results", ResultBody(quiz, p))
                   /\ UNCHANGED alive
  /\ UNCHANGED <<quizzes, heap, inflight>>

----------------------------------------------------------------------------
(* GET /scoreboard/:code *)

DigitValue(ch) ==
  CASE ch = "0" -> 0 [] ch = "1" -> 1 [] ch = "2" -> 2 [] ch = "3" -> 3
    [] ch = "4" -> 4 [] ch = "5" -> 5 [] ch = "6" -> 6 [] ch = "7" -> 7
    [] ch = "8" -> 8 [] ch = "9" -> 9 [] OTHER -> -1

\* a property key that is an array index: the digits of a number, written
\* without a leading zero (a 6-digit id is far below 2^32 - 1)
IsIndexKey(key) ==
  /\ key # <<>>
  /\ \A i \in 1..Len(key) : DigitValue(key[i]) >= 0
  /\ Len(key) = 1 \/ key[1] # "0"

RECURSIVE IndexValue(_)
IndexValue(key) ==
  IF key = <<>> THEN 0
  ELSE 10 * IndexValue(SubSeq(key, 1, Len(key) - 1)) + DigitValue(key[Len(key)])

RECURSIVE Ascending(_)
\* the index keys of a set, smallest first
Ascending(keys) ==
  IF keys = {} THEN <<>>
  ELSE LET least == CHOOSE k \in keys : \A j \in keys : IndexValue(k) <= IndexValue(j)
       IN  <<least>> \o Ascending(keys \ {least})

\* the mutant of Keys: the keys in the order of their first assignment
KeysAsAssigned(quiz) == quiz.order

\* the keys of quiz.participants as Object.entries yields them: the array
\* indices in ascending order, then the other keys in the order of their
\* first assignment
Keys(quiz) ==
  Ascending({k \in DOMAIN quiz.participants : IsIndexKey(k)})
  \o SelectSeq(quiz.order, LAMBDA k : ~IsIndexKey(k))

RECURSIVE InsertRow(_, _)
\* x, an earlier entry, goes before the first later entry that does not
\* have a higher score
InsertRow(x, rows) ==
  IF rows = <<>> THEN <<x>>
  ELSE IF heap[Head(rows)].score > heap[x].score
       THEN <<Head(rows)>> \o InsertRow(x, Tail(rows))
       ELSE <<x>> \o rows

RECURSIVE SortByScore(_)
\* participantsEntries.sort((a, b) => b[1].score - a[1].score), which is
\* stable; an entry is the identity of its participant object
SortByScore(rows) ==
  IF rows = <<>> THEN <<>> ELSE InsertRow(Head(rows), SortByScore(Tail(rows)))

\* the rows of the scoreboard, top to bottom
Rows(quiz) ==
  SortByScore([i \in 1..Len(Keys(quiz)) |-> quiz.participants[Keys(quiz)[i]]])

Scoreboard(code) ==
  /\ Accepts
  /\ nreq' = nreq + 1
  /\ IF ~Known(code) /\ Inherited(code)
     THEN \* `Object.entries(quiz.participants)` throws
          Throws
     ELSE IF ~Known(code)
     THEN /\ resp' = Response(404, "Quiz Not Found")
          /\ UNCHANGED alive
     ELSE /\ resp' = Page(200, "Scoreboard", Rows(quizzes[code]))
          /\ UNCHANGED alive
  /\ UNCHANGED <<quizzes, heap, inflight>>

----------------------------------------------------------------------------

CreateStep == \E title \in TitleInputs, data \in DataInputs : Create(title, data)

JoinStep ==
  \E rawcode \in JoinCodeInputs, rawname \in NameInputs,
     header \in HeaderInputs, remote \in RemoteInputs :
       Join(rawcode, rawname, header, remote)

RecvTakeStep == \E code \in PathInputs, pid \in PathInputs : RecvTake(code, pid)

TakePostStep == \E r \in BagToSet(inflight), answer \in AnswerInputs : TakePost(r, answer)

RecvAccessStep ==
  \E op \in {"whitelist", "blacklist"}, code \in PathInputs : RecvAccess(op, code)

GetTakeStep == \E code \in PathInputs, pid \in PathInputs : GetTake(code, pid)

ResultStep == \E code \in PathInputs, pid \in PathInputs : Result(code, pid)

ScoreboardStep == \E code \in PathInputs : Scoreboard(code)

WhitelistStep == \E r \in BagToSet(inflight), rawip \in IpInputs : Whitelist(r, rawip)

BlacklistStep == \E r \in BagToSet(inflight), rawip \in IpInputs : Blacklist(r, rawip)

Next ==
  \/ RecvCreate
  \/ CreateStep
  \/ RecvJoin
  \/ JoinStep
  \/ RecvTakeStep
  \/ TakePostStep
  \/ RecvAccessStep
  \/ WhitelistStep
  \/ BlacklistStep
  \/ GetTakeStep
  \/ ResultStep
  \/ ScoreboardStep

Spec == Init /\ [][Next]_vars

----------------------------------------------------------------------------
(* GET /scoreboard as a function of the quiz: the quizzes that joins and   *)
(* submissions build, with more ids than Codes has.                         *)

\* participants of the quiz
MaxRows == 3
\* questions of the quiz, and so the highest score
MaxScore == 2

\* values of generateCode, shortened: one with a letter, one of digits that
\* starts with 0, and three that are the digits of a number
BoardIds == {<<"A">>, <<"0", "1">>, <<"1">>, <<"2">>, <<"1", "0">>}

\* the ids of the joins of one quiz, in the order of the joins
JoinOrders ==
  {o \in UNION {[1..n -> BoardIds] : n \in 0..MaxRows} :
     \A i, j \in 1..Len(o) : i # j => o[i] # o[j]}

\* the position of x in seq
Position(seq, x) == CHOOSE i \in 1..Len(seq) : seq[i] = x

\* a participant who has answered `answered` questions of single-choice
\* questions with correct = [0], the first `score` of them correctly
Answered(answered, score) ==
  [name |-> <<"a">>,
   answers |-> [i \in 1..answered |-> IF i <= score THEN <<0>> ELSE <<>>],
   score |-> score,
   ip |-> <<"y">>]

\* the quiz of `total` single-choice questions whose participants joined
\* under the ids of `order`, the i-th join creating the i-th object
QuizOf(total, order) ==
  [NewQuiz(<<"M">>, [k \in 1..total |-> QSingle]) EXCEPT
     !.participants = [pid \in Elements(order) |-> Position(order, pid)],
     !.order = order]

BoardInit ==
  \E order \in JoinOrders : \E scores \in [1..Len(order) -> 0..MaxScore] :
    /\ quizzes = [c \in {<<"A">>} |-> QuizOf(MaxScore, order)]
    /\ heap = [i \in 1..Len(order) |-> Answered(scores[i], scores[i])]
    /\ inflight = EmptyBag
    /\ resp = Response(0, "")
    /\ alive = TRUE
    /\ nreq = MaxReq - 1

ScoreboardSpec == BoardInit /\ [][ScoreboardStep]_vars

----------------------------------------------------------------------------
(* GET /result as a function of the score and the number of questions.     *)

\* questions of the quiz
MaxTotal == 200

\* one participant who has completed a quiz of `total` questions with
\* `score` of them correct; the server takes one more request
ResultInit ==
  \E total \in 1..MaxTotal : \E score \in 0..total :
    /\ quizzes = [c \in {<<"A">>} |-> QuizOf(total, <<<<"1">>>>)]
    /\ heap = <<Answered(total, score)>>
    /\ inflight = EmptyBag
    /\ resp = Response(0, "")
    /\ alive = TRUE
    /\ nreq = MaxReq - 1

ResultSpec == ResultInit /\ [][ResultStep]_vars

----------------------------------------------------------------------------
(* The claims. *)

\* the suspended submissions of participants
TakeRequests == {r \in BagToSet(inflight) : r.op = "take" /\ r.obj # 0}

\* the step takes a suspended request r from those in flight: it is the
\* second part of the handler of r
Resumed(r) == CopiesIn(r, inflight') < CopiesIn(r, inflight)

\* the step adds the request r to those in flight: it is the first part of
\* the handler of r
Suspended(r) == CopiesIn(r, inflight') > CopiesIn(r, inflight)

\* the indices a submission names, as a set
SubmittedSet(answer) ==
  {ParseInt(answer.v[i]).val : i \in {j \in 1..Len(answer.v) : ~ParseInt(answer.v[j]).nan}}

NotFoundError == Response(404, "Not Found")
AccessDeniedError == Response(403, "Access Denied")
AccessRestrictedError == Response(403, "Access Restricted")
Admitted == Response(302, "Admitted")

\* C1: a submitAnswer by a participant who has answered every question
\* fails with NotFoundError and changes nothing, and the server goes on.
C1_CompletedSubmitIsNoOp ==
  [][\A r \in TakeRequests, answer \in AnswerInputs :
       (/\ TakePost(r, answer)
        /\ Len(heap[r.obj].answers) = Len(quizzes[r.code].questions))
       => (/\ resp' = NotFoundError
           /\ heap' = heap
           /\ quizzes' = quizzes
           /\ alive')]_vars

\* C2: while the server runs, every participant of every quiz has
\* score <= answers.length <= questions.length.
C2_ScoreAnswersQuestions ==
  alive =>
    \A code \in DOMAIN quizzes : \A pid \in DOMAIN quizzes[code].participants :
      /\ Participant(code, pid).score <= Len(Participant(code, pid).answers)
      /\ Len(Participant(code, pid).answers) <= Len(quizzes[code].questions)

\* C3: a submission on a question q that has a `correct` adds exactly 1 to the
\* score if the set of submitted indices equals the set q.correct, whatever
\* their order and duplicates, and leaves the score unchanged otherwise.
C3_ScoreIffSetEqual ==
  [][\A r \in TakeRequests, answer \in AnswerInputs :
       (/\ TakePost(r, answer)
        /\ Len(heap[r.obj].answers) < Len(quizzes[r.code].questions)
        /\ quizzes[r.code].questions[Len(heap[r.obj].answers) + 1].obj
        /\ quizzes[r.code].questions[Len(heap[r.obj].answers) + 1].ckind # "undefined")
       => LET q == quizzes[r.code].questions[Len(heap[r.obj].answers) + 1]
          IN  heap'[r.obj].score =
                heap[r.obj].score
                + (IF SubmittedSet(answer) = Elements(CorrectIndices(q)) THEN 1 ELSE 0)]_vars

\* C4: every recorded answer answers[i] has no duplicate and holds only
\* option indices of questions[i].
C4_AnswersNormalized ==
  \A code \in DOMAIN quizzes : \A pid \in DOMAIN quizzes[code].participants :
    \A i \in 1..Len(Participant(code, pid).answers) :
      (/\ i <= Len(quizzes[code].questions)
       /\ quizzes[code].questions[i].obj
       /\ quizzes[code].questions[i].hasOptions)
      => LET a == Participant(code, pid).answers[i]
         IN  /\ Cardinality(Elements(a)) = Len(a)
             /\ \A n \in Elements(a) : n \in 0..(quizzes[code].questions[i].nopts - 1)

\* C5 as stated: a join from a blacklisted address always fails with
\* AccessDeniedError and adds no participant.
C5_BlacklistedAlwaysDenied ==
  [][\A rawcode \in JoinCodeInputs, rawname \in NameInputs,
        header \in HeaderInputs, remote \in RemoteInputs :
       (/\ Join(rawcode, rawname, header, remote)
        /\ Known(Trim(ToUpperCase(rawcode)))
        /\ RequesterIp(header, remote) \in quizzes[Trim(ToUpperCase(rawcode))].blacklist)
       => (/\ resp' = AccessDeniedError
           /\ quizzes' = quizzes
           /\ heap' = heap)]_vars

\* C5 as amended: a join from a blacklisted address adds no participant, and
\* fails with AccessDeniedError when its name is non-empty (with an empty
\* name it fails with ValidationError before the lists are looked at).
C5_BlacklistedDenied ==
  [][Resumed(Request("join", <<>>, 0)) => \A rawcode \in JoinCodeInputs, rawname \in NameInputs,
        header \in HeaderInputs, remote \in RemoteInputs :
       (/\ Join(rawcode, rawname, header, remote)
        /\ Known(Trim(ToUpperCase(rawcode)))
        /\ RequesterIp(header, remote) \in quizzes[Trim(ToUpperCase(rawcode))].blacklist)
       => (/\ quizzes' = quizzes
           /\ heap' = heap
           /\ resp'.status \in {400, 403}
           /\ Trim(rawname) # <<>> => resp' = AccessDeniedError)]_vars

\* a join has just been refused because its address is blacklisted
C5_Witness ==
  /\ resp = AccessDeniedError
  /\ \E code \in DOMAIN quizzes : quizzes[code].blacklist # {}

\* C6: a join with a non-empty name from an address that is not blacklisted
\* fails with AccessRestrictedError, adding no participant, exactly when the
\* whitelist is non-empty and lacks the address; otherwise it is admitted and
\* the quiz has the new participant.
C6_WhitelistDecides ==
  [][Resumed(Request("join", <<>>, 0)) => \A rawcode \in JoinCodeInputs, rawname \in NameInputs,
        header \in HeaderInputs, remote \in RemoteInputs :
       (/\ Join(rawcode, rawname, header, remote)
        /\ Known(Trim(ToUpperCase(rawcode)))
        /\ Trim(rawname) # <<>>
        /\ RequesterIp(header, remote) \notin quizzes[Trim(ToUpperCase(rawcode))].blacklist)
       => LET code == Trim(ToUpperCase(rawcode))
              ip == RequesterIp(header, remote)
          IN  IF quizzes[code].whitelist # {} /\ ip \notin quizzes[code].whitelist
              THEN /\ resp' = AccessRestrictedError
                   /\ quizzes' = quizzes
                   /\ heap' = heap
              ELSE /\ resp' = Admitted
                   /\ Len(heap') = Len(heap) + 1
                   /\ heap'[Len(heap')] = NewParticipant(Trim(rawname), ip)
                   /\ \E pid \in DOMAIN quizzes'[code].participants :
                        quizzes'[code].participants[pid] = Len(heap')]_vars

\* a join has just been refused by a whitelist, and another address of that
\* whitelist has been admitted
C6_Witness ==
  /\ resp = AccessRestrictedError
  /\ \E code \in DOMAIN quizzes :
       \E pid \in DOMAIN quizzes[code].participants :
         Participant(code, pid).ip \in quizzes[code].whitelist

\* C7: no address is on the whitelist and on the blacklist of a quiz.
C7_ListsDisjoint ==
  \A code \in DOMAIN quizzes : quizzes[code].whitelist \cap quizzes[code].blacklist = {}

\* both lists of a quiz hold an address, and a list edit has just been made
C7_Witness ==
  /\ resp = Response(302, "Scoreboard")
  /\ \E code \in DOMAIN quizzes :
       quizzes[code].whitelist # {} /\ quizzes[code].blacklist # {}

\* C8: a creation leaves every registered quiz as it was and, when it
\* succeeds, adds exactly one quiz under a code that was free.
C8_CreateAddsOneQuiz ==
  [][Resumed(Request("create", <<>>, 0)) => \A title \in TitleInputs, data \in DataInputs :
       Create(title, data)
       => (/\ \A c \in DOMAIN quizzes : c \in DOMAIN quizzes' /\ quizzes'[c] = quizzes[c]
           /\ heap' = heap
           /\ resp'.status = 200 =>
                Cardinality(DOMAIN quizzes') = Cardinality(DOMAIN quizzes) + 1
           /\ resp'.status # 200 => quizzes' = quizzes)]_vars

\* a second quiz has just been created beside one that has a participant
C8_Witness ==
  /\ resp = Response(200, "Quiz Created")
  /\ Cardinality(DOMAIN quizzes) = 2
  /\ \E code \in DOMAIN quizzes : quizzes[code].participants # <<>>

\* C9: an admitted join adds exactly one participant, under an id the quiz
\* did not have, and leaves every participant the quiz had as it was.
C9_JoinAddsOneParticipant ==
  [][\A rawcode \in JoinCodeInputs, rawname \in NameInputs,
        header \in HeaderInputs, remote \in RemoteInputs :
       (Join(rawcode, rawname, header, remote) /\ resp' = Admitted)
       => LET code == Trim(ToUpperCase(rawcode))
              old == quizzes[code].participants
              new == quizzes'[code].participants
          IN  /\ Cardinality(DOMAIN new) = Cardinality(DOMAIN old) + 1
              /\ \A pid \in DOMAIN old :
                   pid \in DOMAIN new /\ heap'[new[pid]] = heap[old[pid]]]_vars

\* a question with its text, its options, and a non-empty `correct` of
\* positions of its options
WellFormed(q) ==
  /\ q.obj
  /\ q.text
  /\ q.hasOptions
  /\ q.ckind # "undefined"
  /\ CorrectIndices(q) # <<>>
  /\ \A n \in Elements(CorrectIndices(q)) : n \in 0..(q.nopts - 1)

\* C10: every registered quiz has a non-empty list of well-formed questions
\* (a creation with a malformed question fails and registers nothing).
C10_QuizzesWellFormed ==
  \A code \in DOMAIN quizzes :
    /\ quizzes[code].questions # <<>>
    /\ \A i \in 1..Len(quizzes[code].questions) : WellFormed(quizzes[code].questions[i])

\* what C11 asks of a request that names no quiz or no participant
RefusedAsNotFound ==
  /\ resp'.status = 404
  /\ quizzes' = quizzes
  /\ heap' = heap
  /\ alive'

\* C11: a request that names a quiz code no creation returned, or a
\* participant id no join of that quiz returned, fails with NotFoundError and
\* leaves the registry and every quiz unchanged, and the server goes on.
C11_UnknownIsNotFound ==
  [][/\ \A code \in PathInputs, pid \in PathInputs :
          (/\ GetTake(code, pid) \/ Result(code, pid) \/ RecvTake(code, pid)
           /\ ~Joined(code, pid))
          => RefusedAsNotFound
     /\ \A code \in PathInputs :
          (/\ Scoreboard(code) \/ RecvAccess("whitelist", code) \/ RecvAccess("blacklist", code)
           /\ ~Known(code))
          => RefusedAsNotFound
     /\ \A rawcode \in JoinCodeInputs, rawname \in NameInputs,
           header \in HeaderInputs, remote \in RemoteInputs :
          (/\ Join(rawcode, rawname, header, remote)
           /\ ~Known(Trim(ToUpperCase(rawcode))))
          => RefusedAsNotFound]_vars

\* C12: the participant that an id of a quiz names stays a participant, and
\* no step shortens its answers or changes a recorded entry: a step appends
\* at most one entry.
C12_AnswersOnlyGrow ==
  [][\A code \in DOMAIN quizzes : \A pid \in DOMAIN quizzes[code].participants :
       /\ code \in DOMAIN quizzes'
       /\ pid \in DOMAIN quizzes'[code].participants
       /\ LET old == heap[quizzes[code].participants[pid]].answers
              new == heap'[quizzes'[code].participants[pid]].answers
          IN  /\ Len(old) <= Len(new)
              /\ Len(new) <= Len(old) + 1
              /\ \A i \in 1..Len(old) : new[i] = old[i]]_vars

\* the answers of p that equal, as sets, the `correct` of their question
SetEqualAnswers(quiz, p) ==
  {i \in 1..Len(p.answers) :
     /\ i <= Len(quiz.questions)
     /\ quiz.questions[i].obj
     /\ Elements(p.answers[i]) = Elements(CorrectIndices(quiz.questions[i]))}

\* C13: the score of every participant is the number of its answers
\* answers[i] that equal questions[i].correct as a set.
C13_ScoreCountsSetEqual ==
  \A code \in DOMAIN quizzes : \A pid \in DOMAIN quizzes[code].participants :
    Participant(code, pid).score
      = Cardinality(SetEqualAnswers(quizzes[code], Participant(code, pid)))

\* C14: on every result page the number of questions flagged "Correct" is the
\* score the page shows, also before the participant has completed.
C14_FlagsMatchScore ==
  resp.page = "Results"
    => Cardinality({i \in 5..Len(resp.body) : resp.body[i] = 1}) = resp.body[1]

\* the id under which the quiz holds the participant object obj
KeyOf(quiz, obj) == CHOOSE pid \in DOMAIN quiz.participants : quiz.participants[pid] = obj

\* Object.entries yields the id a before the id b: an id that is the digits
\* of a number comes before one that is not, two such ids by their numbers,
\* two others by their first assignment
KeyBefore(quiz, a, b) ==
  IF IsIndexKey(a)
  THEN ~IsIndexKey(b) \/ IndexValue(a) < IndexValue(b)
  ELSE ~IsIndexKey(b) /\ Position(quiz.order, a) < Position(quiz.order, b)

\* the rows list every participant of the quiz exactly once
EveryParticipantOnce(quiz, rows) ==
  /\ Len(rows) = Cardinality(DOMAIN quiz.participants)
  /\ Elements(rows) = {quiz.participants[pid] : pid \in DOMAIN quiz.participants}

\* C15 as stated: the scoreboard lists every participant of the quiz exactly
\* once, by score descending, and participants of equal score in the order
\* in which they joined (the order of their objects on the heap).
C15_TiesInJoinOrder ==
  [][\A code \in DOMAIN quizzes :
       Scoreboard(code)
       => LET rows == resp'.body
          IN  /\ EveryParticipantOnce(quizzes[code], rows)
              /\ \A i, j \in 1..Len(rows) :
                   i < j => \/ heap[rows[i]].score > heap[rows[j]].score
                            \/ /\ heap[rows[i]].score = heap[rows[j]].score
                               /\ rows[i] < rows[j]]_vars

\* C15 as amended: the scoreboard lists every participant of the quiz exactly
\* once, by score descending, and participants of equal score in the order
\* in which Object.entries yields their ids.
C15_TiesInKeyOrder ==
  [][\A code \in DOMAIN quizzes :
       Scoreboard(code)
       => LET rows == resp'.body
              quiz == quizzes[code]
          IN  /\ EveryParticipantOnce(quiz, rows)
              /\ \A i, j \in 1..Len(rows) :
                   i < j => \/ heap[rows[i]].score > heap[rows[j]].score
                            \/ /\ heap[rows[i]].score = heap[rows[j]].score
                               /\ KeyBefore(quiz, KeyOf(quiz, rows[i]), KeyOf(quiz, rows[j]))]_vars

\* a scoreboard of three rows has been shown on which a participant stands
\* above one of the same score who joined earlier, and one above another of
\* a lower score
C15_Witness ==
  /\ resp.page = "Scoreboard"
  /\ Len(resp.body) = 3
  /\ \E i, j \in 1..3 :
       /\ i < j
       /\ heap[resp.body[i]].score = heap[resp.body[j]].score
       /\ resp.body[i] > resp.body[j]
  /\ \E i, j \in 1..3 : heap[resp.body[i]].score > heap[resp.body[j]].score

\* the participant and the quiz that a result page is about, with the page's
\* score and total
ResultOf(score, total) ==
  \E code \in DOMAIN quizzes : \E pid \in DOMAIN quizzes[code].participants :
    /\ Participant(code, pid).score = score
    /\ Len(quizzes[code].questions) = total

\* C18 as stated: a result page shows total = questions.length,
\* points = score * 100 and percent = round(score / total * 100) with halves
\* going up; percent is an integer in 0..100 and is 100 exactly when
\* score = total > 0.
C18_PercentExact ==
  resp.page = "Results"
    => LET score == resp.body[1]
           total == resp.body[2]
           percent == resp.body[3]
           points == resp.body[4]
       IN  /\ ResultOf(score, total)
           /\ points = score * 100
           /\ percent \in 0..100
           /\ 2 * total * percent - total <= 200 * score
           /\ 200 * score < 2 * total * percent + total
           /\ percent = 100 <=> (score = total /\ total > 0)

\* C18 as amended: a result page shows total = questions.length,
\* points = score * 100 and a percent that is an integer in 0..100 nearest to
\* score / total * 100; percent is 100 when score = total > 0, and when it is
\* 100 then score / total is at least 0.995.
C18_PercentNearest ==
  resp.page = "Results"
    => LET score == resp.body[1]
           total == resp.body[2]
           percent == resp.body[3]
           points == resp.body[4]
       IN  /\ ResultOf(score, total)
           /\ points = score * 100
           /\ percent \in 0..100
           /\ 2 * total * percent - total <= 200 * score
           /\ 200 * score <= 2 * total * percent + total
           /\ (score = total /\ total > 0) => percent = 100
           /\ percent = 100 => 200 * score >= 199 * total

\* a result page has shown 100 percent to a participant with a wrong answer
C18_Witness ==
  /\ resp.page = "Results"
  /\ resp.body[3] = 100
  /\ resp.body[1] < resp.body[2]

\* C16: the lookup of a submission and its mutation are one atomic step: the
\* participant object that a submission writes is the one that the quiz
\* holds under an id when it is written.
C16_LookupAtMutation ==
  [][\A r \in TakeRequests, answer \in AnswerInputs :
       TakePost(r, answer)
       => \E pid \in DOMAIN quizzes[r.code].participants :
            quizzes[r.code].participants[pid] = r.obj]_vars

\* C17: a submission changes only the answers and the score of the
\* participant that submits: every quiz with its title, questions, lists and
\* participants, every other participant, and the name and ip of the
\* submitting one stay as they were.
C17_SubmitFrame ==
  [][\A r \in TakeRequests, answer \in AnswerInputs :
       TakePost(r, answer)
       => /\ quizzes' = quizzes
          /\ Len(heap') = Len(heap)
          /\ \A obj \in 1..Len(heap) : obj # r.obj => heap'[obj] = heap[obj]
          /\ heap'[r.obj].name = heap[r.obj].name
          /\ heap'[r.obj].ip = heap[r.obj].ip]_vars

\* a participant has just completed with a score beside another participant
\* of the quiz, who has no answer yet
C17_Witness ==
  /\ resp = Response(302, "Result")
  /\ \E code \in DOMAIN quizzes : \E pid, other \in DOMAIN quizzes[code].participants :
       /\ pid # other
       /\ Participant(code, pid).score = 1
       /\ Len(Participant(code, pid).answers) = Len(quizzes[code].questions)
       /\ Participant(code, other).answers = <<>>

ValidationError == Response(400, "Invalid Name")

\* C19: a join reports the first check that fails, in the order unknown code,
\* empty name, blacklisted address, whitelist without the address; it
\* creates one participant when all four pass and changes nothing otherwise.
C19_JoinCheckOrder ==
  [][Resumed(Request("join", <<>>, 0)) => \A rawcode \in JoinCodeInputs, rawname \in NameInputs,
        header \in HeaderInputs, remote \in RemoteInputs :
       Join(rawcode, rawname, header, remote)
       => LET code == Trim(ToUpperCase(rawcode))
              ip == RequesterIp(header, remote)
          IN  /\ resp' =
                   (IF ~Known(code) THEN Response(404, "Quiz Not Found")
                    ELSE IF Trim(rawname) = <<>> THEN ValidationError
                    ELSE IF ip \in quizzes[code].blacklist THEN AccessDeniedError
                    ELSE IF quizzes[code].whitelist # {} /\ ip \notin quizzes[code].whitelist
                         THEN AccessRestrictedError
                    ELSE Admitted)
              /\ resp' # Admitted => (quizzes' = quizzes /\ heap' = heap)
              /\ resp' = Admitted => Len(heap') = Len(heap) + 1]_vars

\* a join with an empty name has just been refused for its name by a quiz
\* that has every address on its blacklist
C19_Witness ==
  /\ resp = ValidationError
  /\ quizzes # <<>>
  /\ \A code \in DOMAIN quizzes : \A ip \in {<<"x">>, <<"y">>} : ip \in quizzes[code].blacklist

\* C20: a list edit leaves every participant as it is; a submission of a
\* participant is taken, recorded and answered whatever the lists hold, and
\* the scoreboard lists every participant.
C20_ListsOnlyAtJoin ==
  [][IF nreq' = nreq
     THEN \A r \in BagToSet(inflight) :
            Resumed(r)
            => /\ \A rawip \in IpInputs :
                    (Whitelist(r, rawip) \/ Blacklist(r, rawip))
                    => /\ heap' = heap
                       /\ DOMAIN quizzes' = DOMAIN quizzes
                       /\ \A code \in DOMAIN quizzes :
                            quizzes'[code].participants = quizzes[code].participants
               /\ \A answer \in AnswerInputs :
                    (r.obj # 0 /\ TakePost(r, answer))
                    => /\ heap'[r.obj].answers = Append(heap[r.obj].answers, Selected(answer))
                       /\ resp'.status # 403
     ELSE /\ \A code \in DOMAIN quizzes : \A pid \in DOMAIN quizzes[code].participants :
               RecvTake(code, pid)
               => (resp' = resp /\ Suspended(Request("take", code, Found(code, pid))))
          /\ \A code \in DOMAIN quizzes :
               (resp'.page = "Scoreboard" /\ Scoreboard(code))
               => EveryParticipantOnce(quizzes[code], resp'.body)]_vars

\* a participant whose address is on the blacklist of the quiz has just
\* completed it
C20_Witness ==
  /\ resp = Response(302, "Result")
  /\ \E code \in DOMAIN quizzes : \E pid \in DOMAIN quizzes[code].participants :
       /\ Participant(code, pid).ip \in quizzes[code].blacklist
       /\ Len(Participant(code, pid).answers) = Len(quizzes[code].questions)

====
